---- MODULE Spec2Model ----
(***************************************************************************)
(* Expense tracker: the persistent Store (src/src/store.rs), the entity    *)
(* model (src/src/models.rs) and the CLI dispatcher (src/src/main.rs).     *)
(*                                                                         *)
(* The Store is a record; every method of Store is an operator from a      *)
(* store to the store it leaves behind, and the actions apply them and     *)
(* write the file as persist does.                                         *)
(***************************************************************************)
EXTENDS Integers, Sequences, FiniteSets, TLC

\* ---------------------------------------------------------------- bounds
\* u32 counters are capped: add_transaction / add_category are not taken
\* once the high-water mark has reached the cap.
MaxTransactionId == 2
MaxCategoryId == 2
\* Utc::now() is drawn from 1..MaxTime (the wall clock is not monotonic).
MaxTime == 2
\* the transaction lists the query specification draws have at most MaxLen entries
MaxLen == 3

\* ---------------------------------------------------------------- values
\* f64: a finite number, an infinity (v is its sign) or NaN.
Num(n) == [k |-> "num", v |-> n]
PosInf == [k |-> "inf", v |-> 1]
NegInf == [k |-> "inf", v |-> -1]
\* f64::MAX and -f64::MAX, the largest finite values (v is the sign)
F64Max(sign) == [k |-> "max", v |-> sign]
IsFinite(x) == x.k \in {"num", "max"}
NaN == [k |-> "nan", v |-> 0]
\* Option<Limit>::None, and JSON null.
NoLimit == [k |-> "none", v |-> 0]
JNull == [k |-> "null", v |-> 0]

\* Option<Category>
NoCategory == [some |-> FALSE, id |-> 0, name |-> ""]
SomeCategory(c) == [some |-> TRUE, id |-> c.id, name |-> c.name]

Category_new(id, name) == [id |-> id, name |-> name]

Transaction_new(id, amount, description, category, now) ==
    [id |-> id, amount |-> amount, description |-> description,
     datetime |-> now, category |-> category]

remove_category(t) == [t EXCEPT !.category = NoCategory]

\* the inputs the actions draw from
Names == {"a", "b"}
Descriptions == {"d"}
Amounts == {Num(1), NaN}
Limits == {Num(-1), Num(0), Num(1), PosInf}
Times == 1..MaxTime
TransactionIds == 1..MaxTransactionId
CategoryIds == 1..MaxCategoryId
Categories == {Category_new(i, n) : i \in CategoryIds, n \in Names}
OptCategories == {NoCategory} \cup {SomeCategory(c) : c \in Categories}

\* ---------------------------------------------------------------- helpers
Max(S) == CHOOSE x \in S : \A y \in S : y <= x
Min(S) == CHOOSE x \in S : \A y \in S : x <= y

\* .iter().map(|i| i.id()).max().unwrap_or(0)
MaxIdOf(seq) == IF Len(seq) = 0 THEN 0 ELSE Max({seq[i].id : i \in DOMAIN seq})

\* .iter().position(|x| x.id() == id), 0 for None
position(seq, id) ==
    IF \E i \in DOMAIN seq : seq[i].id = id
    THEN Min({i \in DOMAIN seq : seq[i].id = id})
    ELSE 0

\* Vec::remove(pos)
remove(seq, pos) == SubSeq(seq, 1, pos - 1) \o SubSeq(seq, pos + 1, Len(seq))

\* f64 > 0.0
GtZero(x) == \/ x.k = "num" /\ x.v > 0
             \/ x.k = "max" /\ x.v > 0
             \/ x.k = "inf" /\ x.v > 0

\* ---------------------------------------------------------------- (de)serialization
\* serde_json writes a non-finite f64 as null.
to_json_f64(x) == IF IsFinite(x) THEN x ELSE JNull
to_json_limit(l) == IF l.k = "none" THEN JNull ELSE to_json_f64(l)
\* ids, strings and the RFC3339 datetime are written as they are
to_json_transaction(t) == [t EXCEPT !.amount = to_json_f64(t.amount)]

\* null is read back as None for Option<f64>
from_json_limit(j) == IF j.k = "null" THEN NoLimit ELSE [k |-> j.k, v |-> j.v]
\* a JSON number is read back as that f64 (a null amount does not parse)
from_json_transaction(j) == [j EXCEPT !.amount = [k |-> j.amount.k, v |-> j.amount.v]]

\* whole: the text of the file is one complete JSON document
AbsentFile ==
    [exists |-> FALSE, whole |-> FALSE, transactions |-> <<>>, categories |-> <<>>, limit |-> JNull]

\* serde_json::to_string_pretty(&self): the #[serde(skip)] fields are left out
serialize(s) ==
    [exists |-> TRUE,
     whole |-> TRUE,
     transactions |-> [i \in DOMAIN s.transactions |-> to_json_transaction(s.transactions[i])],
     categories |-> s.categories,
     limit |-> to_json_limit(s.limit)]

\* serde_json::from_str succeeds: the text is one document and null is not an f64
Parses(f) ==
    /\ f.whole
    /\ \A i \in DOMAIN f.transactions : f.transactions[i].amount.k # "null"

\* mutant: the high-water marks of a new store start at 1
EmptyStore_one ==
    [transactions |-> <<>>, max_transaction_id |-> 1,
     categories |-> <<>>, max_category_id |-> 1, limit |-> NoLimit]

EmptyStore ==
    [transactions |-> <<>>, max_transaction_id |-> 0,
     categories |-> <<>>, max_category_id |-> 0, limit |-> NoLimit]

\* the content of the file written by persist
persist(s) == serialize(s)

\* File::create(&self.path): the file exists and is empty
Truncated ==
    [exists |-> TRUE, whole |-> FALSE, transactions |-> <<>>, categories |-> <<>>, limit |-> JNull]

\* the length of the text of a file, in records
Size(f) == Len(f.transactions) + Len(f.categories)

\* file.write_all(json) from offset 0 on the text f that is in the file by
\* then: a longer text written meanwhile through another descriptor keeps
\* its tail
write_all(f, json) ==
    IF Size(json) >= Size(f) THEN json ELSE [f EXCEPT !.whole = FALSE]

\* mutant: the high-water mark is the number of loaded records
LoadedMax_len(seq) == Len(seq)

\* mutant: the skipped high-water mark keeps its default
LoadedMax_zero(seq) == EmptyStore.max_transaction_id

\* the high-water mark Store::new computes from the loaded records
LoadedMax(seq) == MaxIdOf(seq)

\* Store::new when the file exists and parses
load(f) ==
    [transactions |-> [i \in DOMAIN f.transactions |-> from_json_transaction(f.transactions[i])],
     max_transaction_id |-> LoadedMax(f.transactions),
     categories |-> f.categories,
     max_category_id |-> LoadedMax(f.categories),
     limit |-> from_json_limit(f.limit)]

\* Store::new: the store it returns, the file it leaves, whether it panics
NewPanics(f) == f.exists /\ ~Parses(f)
NewStore(f) == IF f.exists THEN load(f) ELSE EmptyStore
NewFile(f) == IF f.exists THEN f ELSE persist(EmptyStore)

\* ---------------------------------------------------------------- Store methods
\* mutant: the id is recomputed from the transactions currently stored
add_transaction_rescan(s, description, amount, category, now) ==
    [s EXCEPT !.transactions = Append(s.transactions,
                  Transaction_new(MaxIdOf(s.transactions) + 1, amount, description, category, now)),
              !.max_transaction_id = MaxIdOf(s.transactions) + 1]

add_transaction(s, description, amount, category, now) ==
    [s EXCEPT !.transactions = Append(s.transactions,
                  Transaction_new(s.max_transaction_id + 1, amount, description, category, now)),
              !.max_transaction_id = s.max_transaction_id + 1]

\* mutant: the last transaction is removed instead of the one found
delete_transaction_last(s, id) ==
    LET pos == position(s.transactions, id) IN
    IF pos # 0 THEN [s EXCEPT !.transactions = remove(s.transactions, Len(s.transactions))] ELSE s

delete_transaction(s, id) ==
    LET pos == position(s.transactions, id) IN
    IF pos # 0 THEN [s EXCEPT !.transactions = remove(s.transactions, pos)] ELSE s

\* mutant: an id that is not found yields the first category
get_category_first(s, id) ==
    LET pos == position(s.categories, id) IN
    IF pos # 0 THEN SomeCategory(s.categories[pos])
    ELSE IF Len(s.categories) > 0 THEN SomeCategory(s.categories[1]) ELSE NoCategory

get_category(s, id) ==
    LET pos == position(s.categories, id) IN
    IF pos # 0 THEN SomeCategory(s.categories[pos]) ELSE NoCategory

add_category(s, name) ==
    [s EXCEPT !.categories = Append(s.categories, Category_new(s.max_category_id + 1, name)),
              !.max_category_id = s.max_category_id + 1]

\* the transactions delete_category clears
Referencing(s, id) == {i \in DOMAIN s.transactions :
                          s.transactions[i].category.some /\ s.transactions[i].category.id = id}

\* mutant: only the transactions value-equal to the removed category are cleared
delete_category_byvalue(s, id) ==
    LET pos == position(s.categories, id) IN
    [s EXCEPT !.categories = IF pos # 0 THEN remove(s.categories, pos) ELSE s.categories,
              !.transactions = [i \in DOMAIN s.transactions |->
                                   IF pos # 0 /\ s.transactions[i].category = SomeCategory(s.categories[pos])
                                   THEN remove_category(s.transactions[i])
                                   ELSE s.transactions[i]]]

\* mutant: the category is removed and the transactions are left alone
delete_category_nocascade(s, id) ==
    LET pos == position(s.categories, id) IN
    [s EXCEPT !.categories = IF pos # 0 THEN remove(s.categories, pos) ELSE s.categories]

\* mutant: removing a category clears the category of every transaction
delete_category_clearall(s, id) ==
    LET pos == position(s.categories, id) IN
    [s EXCEPT !.categories = IF pos # 0 THEN remove(s.categories, pos) ELSE s.categories,
              !.transactions = [i \in DOMAIN s.transactions |->
                                   remove_category(s.transactions[i])]]

delete_category(s, id) ==
    LET pos == position(s.categories, id) IN
    [s EXCEPT !.categories = IF pos # 0 THEN remove(s.categories, pos) ELSE s.categories,
              !.transactions = [i \in DOMAIN s.transactions |->
                                   IF i \in Referencing(s, id)
                                   THEN remove_category(s.transactions[i])
                                   ELSE s.transactions[i]]]

\* mutant: an unstable sort, a transaction goes before those of its timestamp
InsertByDatetime_before(sorted, t) ==
    LET n == Cardinality({i \in DOMAIN sorted : sorted[i].datetime < t.datetime}) IN
    SubSeq(sorted, 1, n) \o <<t>> \o SubSeq(sorted, n + 1, Len(sorted))

\* Vec::sort_by(|a, b| a.datetime().cmp(&b.datetime())): a stable sort
InsertByDatetime(sorted, t) ==
    LET n == Cardinality({i \in DOMAIN sorted : sorted[i].datetime <= t.datetime}) IN
    SubSeq(sorted, 1, n) \o <<t>> \o SubSeq(sorted, n + 1, Len(sorted))

RECURSIVE sort_by_datetime(_)
sort_by_datetime(seq) ==
    IF Len(seq) = 0 THEN <<>>
    ELSE InsertByDatetime(sort_by_datetime(SubSeq(seq, 1, Len(seq) - 1)), seq[Len(seq)])

\* mutant: the filter compares the category id only
list_transactions_byid(s, category) ==
    sort_by_datetime(
        IF category.some
        THEN SelectSeq(s.transactions,
                       LAMBDA t : t.category.some /\ t.category.id = category.id)
        ELSE s.transactions)

list_transactions(s, category) ==
    sort_by_datetime(
        IF category.some
        THEN SelectSeq(s.transactions, LAMBDA t : t.category = category)
        ELSE s.transactions)

\* mutant: a limit of zero is stored
set_limit_keepzero(s, limit) ==
    [s EXCEPT !.limit = IF GtZero(limit) \/ limit = Num(0) THEN limit ELSE NoLimit]

set_limit(s, limit) == [s EXCEPT !.limit = IF GtZero(limit) THEN limit ELSE NoLimit]

NoOther == [live |-> FALSE, s |-> EmptyStore, pc |-> "none"]

\* ---------------------------------------------------------------- summary.rs
\* The instants of the clock as UTC calendar dates, in increasing order.
Calendar ==
    << [year |-> 2024, month |-> 1, day |-> 30],
       [year |-> 2024, month |-> 1, day |-> 31],
       [year |-> 2024, month |-> 2, day |-> 1],
       [year |-> 2025, month |-> 1, day |-> 31] >>

\* zero-padded decimal fields of chrono's format
Digit(n) == <<"0", "1", "2", "3", "4", "5", "6", "7", "8", "9">>[n + 1]
Pad2(n) == Digit(n \div 10) \o Digit(n % 10)
Pad4(n) == Pad2(n \div 100) \o Pad2(n % 100)
\* datetime().format("%Y-%m").to_string()
format_ym(t) == Pad4(Calendar[t].year) \o "-" \o Pad2(Calendar[t].month)
\* mutant: the key of by_day is the month
format_ymd_month(t) == format_ym(t)
\* datetime().date_naive().format("%Y-%m-%d").to_string()
format_ymd(t) == format_ym(t) \o "-" \o Pad2(Calendar[t].day)

\* f64 addition on these values: f64::MAX absorbs a small addend, overflows
\* to infinity when doubled and cancels against -f64::MAX
F64Add(x, y) ==
    IF x.k = "nan" \/ y.k = "nan" THEN NaN
    ELSE IF x.k = "inf" /\ y.k = "inf" THEN (IF x.v = y.v THEN x ELSE NaN)
    ELSE IF x.k = "inf" THEN x
    ELSE IF y.k = "inf" THEN y
    ELSE IF x.k = "max" /\ y.k = "max"
         THEN (IF x.v = y.v THEN [k |-> "inf", v |-> x.v] ELSE Num(0))
    ELSE IF x.k = "max" THEN x
    ELSE IF y.k = "max" THEN y
    ELSE Num(x.v + y.v)

F64Neg(x) == IF x.k = "nan" THEN NaN ELSE [k |-> x.k, v |-> 0 - x.v]
F64Sub(x, y) == F64Add(x, F64Neg(y))
\* mutant: x <= 0.0
LtZero_orzero(x) == x.k \in {"num", "max", "inf"} /\ x.v <= 0
\* x < 0.0
LtZero(x) == x.k \in {"num", "max", "inf"} /\ x.v < 0

\* .iter().map(|t| t.amount()).sum(): a left fold from 0.0
RECURSIVE SumAmounts(_)
SumAmounts(seq) ==
    IF Len(seq) = 0 THEN Num(0)
    ELSE F64Add(SumAmounts(SubSeq(seq, 1, Len(seq) - 1)), seq[Len(seq)].amount)

\* Option<String>
NoMonth == [some |-> FALSE, s |-> ""]
SomeMonth(m) == [some |-> TRUE, s |-> m]

\* the two filters of summary
\* mutant: a string that is the month of no instant is no restriction
PassesMonth_lenient(t, m) ==
    \/ m = "overall"
    \/ format_ym(t.datetime) = m
    \/ m \notin {format_ym(d) : d \in DOMAIN Calendar}
PassesMonth(t, m) == m = "overall" \/ format_ym(t.datetime) = m
\* mutant: a transaction without a category never passes
PassesCategory_some(t, category) ==
    t.category.some /\ (category.some => t.category = category)
PassesCategory(t, category) == category.some => t.category = category

\* mutant: a category filter is ignored when the month is "overall"
summary_overall_all(transactions, month, category) ==
    IF ~month.some
    THEN [panic |-> TRUE, total |-> Num(0), by_day |-> <<>>]
    ELSE
        LET passing == SelectSeq(transactions,
                LAMBDA t : month.s = "overall"
                             \/ (PassesMonth(t, month.s) /\ PassesCategory(t, category)))
            days == {format_ymd(passing[i].datetime) : i \in DOMAIN passing}
        IN [panic |-> FALSE,
            total |-> SumAmounts(passing),
            by_day |-> [d \in days |->
                SumAmounts(SelectSeq(passing, LAMBDA t : format_ymd(t.datetime) = d))]]

summary(transactions, month, category) ==
    IF ~month.some
    THEN [panic |-> TRUE, total |-> Num(0), by_day |-> <<>>]
    ELSE
        LET passing == SelectSeq(transactions,
                LAMBDA t : PassesMonth(t, month.s) /\ PassesCategory(t, category))
            days == {format_ymd(passing[i].datetime) : i \in DOMAIN passing}
        IN [panic |-> FALSE,
            total |-> SumAmounts(passing),
            by_day |-> [d \in days |->
                SumAmounts(SelectSeq(passing, LAMBDA t : format_ymd(t.datetime) = d))]]

\* mutant: the limit is checked against the overall total
check_limit_overall(transactions, limit, now) ==
    F64Sub(limit, summary(transactions, SomeMonth("overall"), NoCategory).total)

\* check_limit at the instant now of Utc::now()
check_limit(transactions, limit, now) ==
    F64Sub(limit, summary(transactions, SomeMonth(format_ym(now)), NoCategory).total)

\* ---------------------------------------------------------------- state
VARIABLES
    store,    \* the Store of the running process
    file,     \* the content of the data file
    pc,       \* "none": no Store constructed; "run"; "panic": the process died
    lastOp,   \* the last operation: name, id argument, result, whether the id was found
    everT,    \* largest transaction id ever present in this instance
    everC,    \* largest category id ever present in this instance
    allocT,   \* transaction ids ever returned by add_transaction
    allocC,   \* category ids ever returned by add_category
    out,      \* what the last query (list_transactions, summary, check_limit) returned
    other     \* the Store of a second process on the same path

\* the variables the Store operations of one process leave alone
aux == <<out, other>>

vars == <<store, file, pc, lastOp, everT, everC, allocT, allocC, out, other>>

\* no query has returned; no second process
NoOut == [kind |-> "none"]

Op(op, arg, ret, hit) == [op |-> op, arg |-> arg, ret |-> ret, hit |-> hit]

Init ==
    /\ store = EmptyStore
    /\ file = AbsentFile
    /\ pc = "none"
    /\ lastOp = Op("init", 0, 0, FALSE)
    /\ everT = 0
    /\ everC = 0
    /\ allocT = {}
    /\ allocC = {}
    /\ out = NoOut
    /\ other = NoOther

\* ---------------------------------------------------------------- Store API actions
\* Store::new(path): also a reload, the previous instance is dropped
StoreNew ==
    \/ /\ file.exists /\ Parses(file)
       /\ store' = load(file)
       /\ pc' = "run"
       /\ lastOp' = Op("new", 0, 0, TRUE)
       /\ everT' = MaxIdOf(store'.transactions)
       /\ everC' = MaxIdOf(store'.categories)
       /\ UNCHANGED <<file, allocT, allocC, aux>>
    \/ /\ NewPanics(file)
       /\ pc' = "panic"
       /\ lastOp' = Op("new", 0, 0, TRUE)
       /\ UNCHANGED <<store, file, everT, everC, allocT, allocC, aux>>
    \/ /\ ~file.exists
       /\ store' = EmptyStore
       /\ file' = persist(store')
       /\ pc' = "run"
       /\ lastOp' = Op("new", 0, 0, FALSE)
       /\ everT' = 0
       /\ everC' = 0
       /\ UNCHANGED <<allocT, allocC, aux>>

AddTransaction ==
    \E d \in Descriptions, a \in Amounts, c \in OptCategories, now \in Times :
        /\ pc = "run"
        /\ store.max_transaction_id < MaxTransactionId
        /\ store' = add_transaction(store, d, a, c, now)
        /\ file' = persist(store')
        /\ lastOp' = Op("add_transaction", 0, store'.max_transaction_id, FALSE)
        /\ everT' = Max({everT, lastOp'.ret})
        /\ allocT' = allocT \cup {lastOp'.ret}
        /\ UNCHANGED <<pc, everC, allocC, aux>>

DeleteTransaction ==
    \E id \in TransactionIds :
        /\ pc = "run"
        /\ store' = delete_transaction(store, id)
        /\ file' = IF position(store.transactions, id) # 0 THEN persist(store') ELSE file
        /\ lastOp' = Op("delete_transaction", id, 0, position(store.transactions, id) # 0)
        /\ UNCHANGED <<pc, everT, everC, allocT, allocC, aux>>

AddCategory ==
    \E n \in Names :
        /\ pc = "run"
        /\ store.max_category_id < MaxCategoryId
        /\ store' = add_category(store, n)
        /\ file' = persist(store')
        /\ lastOp' = Op("add_category", 0, store'.max_category_id, FALSE)
        /\ everC' = Max({everC, lastOp'.ret})
        /\ allocC' = allocC \cup {lastOp'.ret}
        /\ UNCHANGED <<pc, everT, allocT, aux>>

\* lastOp.ret is the number of transactions whose category was cleared
DeleteCategory ==
    \E id \in CategoryIds :
        /\ pc = "run"
        /\ store' = delete_category(store, id)
        /\ file' = persist(store')
        /\ lastOp' = Op("delete_category", id, Cardinality(Referencing(store, id)),
                        position(store.categories, id) # 0)
        /\ UNCHANGED <<pc, everT, everC, allocT, allocC, aux>>

SetLimit ==
    \E l \in Limits :
        /\ pc = "run"
        /\ store' = set_limit(store, l)
        /\ file' = persist(store')
        /\ lastOp' = Op("set_limit", l, 0, FALSE)
        /\ UNCHANGED <<pc, everT, everC, allocT, allocC, aux>>

Next ==
    \/ StoreNew
    \/ AddTransaction
    \/ DeleteTransaction
    \/ AddCategory
    \/ DeleteCategory
    \/ SetLimit

Spec == Init /\ [][Next]_vars

\* ---------------------------------------------------------------- CLI commands (main)
\* Every command is one process: Store::new(None), then the match arm.
OptCategoryArgs == {[some |-> FALSE, id |-> 0]} \cup {[some |-> TRUE, id |-> i] : i \in CategoryIds}

\* Store::new panics on a file it cannot parse; the command does nothing
CliLoadPanic ==
    /\ NewPanics(file)
    /\ pc' = "panic"
    /\ lastOp' = Op("new", 0, 0, TRUE)
    /\ UNCHANGED <<store, file, everT, everC, allocT, allocC, aux>>

\* what the warning branch of the Add command decides at instant now of
\* check_limit: the limit is set and the remaining amount is below 0.0
Warns(s, now) ==
    /\ s.limit # NoLimit
    /\ LtZero(check_limit(list_transactions(s, NoCategory), s.limit, now))

\* lastOp.arg is the category id given (0 for none); out holds the instant
\* of the limit check and whether the warning was printed
CmdAdd ==
    \E d \in Descriptions, a \in Amounts, oc \in OptCategoryArgs, now \in Times :
        LET s0 == NewStore(file)
            category == IF oc.some THEN get_category(s0, oc.id) ELSE NoCategory
        IN
        /\ ~NewPanics(file)
        /\ everC' = MaxIdOf(s0.categories)
        /\ UNCHANGED <<allocC, other>>
        /\ \/ /\ oc.some /\ ~category.some      \* expect("Category not found")
              /\ store' = s0
              /\ file' = NewFile(file)
              /\ pc' = "panic"
              /\ lastOp' = Op("get_category", oc.id, 0, FALSE)
              /\ everT' = MaxIdOf(s0.transactions)
              /\ out' = NoOut
              /\ UNCHANGED allocT
           \/ /\ oc.some => category.some
              /\ s0.max_transaction_id < MaxTransactionId
              /\ store' = add_transaction(s0, d, a, category, now)
              /\ file' = persist(store')
              /\ pc' = "run"
              /\ lastOp' = Op("add_transaction", oc.id, store'.max_transaction_id, FALSE)
              /\ everT' = Max({MaxIdOf(s0.transactions), lastOp'.ret})
              /\ allocT' = allocT \cup {lastOp'.ret}
              /\ \E later \in Times :
                    /\ later >= now
                    /\ out' = [kind |-> "add", now |-> later, warned |-> Warns(store', later)]

CmdDelete ==
    \E id \in TransactionIds :
        LET s0 == NewStore(file) IN
        /\ ~NewPanics(file)
        /\ store' = delete_transaction(s0, id)
        /\ file' = IF position(s0.transactions, id) # 0 THEN persist(store') ELSE NewFile(file)
        /\ pc' = "run"
        /\ lastOp' = Op("delete_transaction", id, 0, position(s0.transactions, id) # 0)
        /\ everT' = MaxIdOf(s0.transactions)
        /\ everC' = MaxIdOf(s0.categories)
        /\ out' = NoOut
        /\ UNCHANGED <<allocT, allocC, other>>

\* the List command: lastOp.hit is FALSE when the category lookup fails
CmdList ==
    \E oc \in OptCategoryArgs :
        LET s0 == NewStore(file)
            category == IF oc.some THEN get_category(s0, oc.id) ELSE NoCategory
            found == oc.some => category.some
        IN
        /\ ~NewPanics(file)
        /\ store' = s0
        /\ file' = NewFile(file)
        /\ pc' = IF found THEN "run" ELSE "panic"
        /\ lastOp' = Op("list", oc.id, 0, found)
        /\ everT' = MaxIdOf(s0.transactions)
        /\ everC' = MaxIdOf(s0.categories)
        /\ out' = IF found
                  THEN [kind |-> "list", category |-> category,
                        ret |-> list_transactions(s0, category)]
                  ELSE NoOut
        /\ UNCHANGED <<allocT, allocC, other>>

\* the month arguments of the Summary command
CliMonths == {"overall", "2024-01", "2024-1"}

\* the Summary command: lastOp.hit is FALSE when the category lookup fails
CmdSummary ==
    \E m \in CliMonths, oc \in OptCategoryArgs :
        LET s0 == NewStore(file)
            category == IF oc.some THEN get_category(s0, oc.id) ELSE NoCategory
            found == oc.some => category.some
        IN
        /\ ~NewPanics(file)
        /\ store' = s0
        /\ file' = NewFile(file)
        /\ pc' = IF found THEN "run" ELSE "panic"
        /\ lastOp' = Op("summary", oc.id, 0, found)
        /\ everT' = MaxIdOf(s0.transactions)
        /\ everC' = MaxIdOf(s0.categories)
        /\ out' = IF found
                  THEN [kind |-> "summary", month |-> SomeMonth(m), category |-> category,
                        ret |-> summary(list_transactions(s0, NoCategory), SomeMonth(m), category)]
                  ELSE NoOut
        /\ UNCHANGED <<allocT, allocC, other>>

CmdLimit ==
    \E l \in Limits :
        LET s0 == NewStore(file) IN
        /\ ~NewPanics(file)
        /\ store' = set_limit(s0, l)
        /\ file' = persist(store')
        /\ pc' = "run"
        /\ lastOp' = Op("set_limit", l, 0, FALSE)
        /\ everT' = MaxIdOf(s0.transactions)
        /\ everC' = MaxIdOf(s0.categories)
        /\ out' = NoOut
        /\ UNCHANGED <<allocT, allocC, other>>

CmdCategoryAdd ==
    \E n \in Names :
        LET s0 == NewStore(file) IN
        /\ ~NewPanics(file)
        /\ s0.max_category_id < MaxCategoryId
        /\ store' = add_category(s0, n)
        /\ file' = persist(store')
        /\ pc' = "run"
        /\ lastOp' = Op("add_category", 0, store'.max_category_id, FALSE)
        /\ everT' = MaxIdOf(s0.transactions)
        /\ everC' = Max({MaxIdOf(s0.categories), lastOp'.ret})
        /\ allocC' = allocC \cup {lastOp'.ret}
        /\ out' = NoOut
        /\ UNCHANGED <<allocT, other>>

CmdCategoryDelete ==
    \E id \in CategoryIds :
        LET s0 == NewStore(file) IN
        /\ ~NewPanics(file)
        /\ store' = delete_category(s0, id)
        /\ file' = persist(store')
        /\ pc' = "run"
        /\ lastOp' = Op("delete_category", id, Cardinality(Referencing(s0, id)),
                        position(s0.categories, id) # 0)
        /\ everT' = MaxIdOf(s0.transactions)
        /\ everC' = MaxIdOf(s0.categories)
        /\ out' = NoOut
        /\ UNCHANGED <<allocT, allocC, other>>

NextCLI ==
    \/ CliLoadPanic
    \/ CmdAdd
    \/ CmdDelete
    \/ CmdList
    \/ CmdSummary
    \/ CmdLimit
    \/ CmdCategoryAdd
    \/ CmdCategoryDelete

SpecCLI == Init /\ [][NextCLI]_vars

\* ---------------------------------------------------------------- two processes
\* Two processes on the same path: process 1 holds store and pc, process 2
\* holds other.s and other.pc. A persist is two steps, File::create and
\* write_all, and the steps of the two processes interleave.
Processes == {1, 2}
St(p) == IF p = 1 THEN store ELSE other.s
Pc(p) == IF p = 1 THEN pc ELSE other.pc

\* process p goes on with Store s at position c
Step(p, s, c) ==
    IF p = 1
    THEN store' = s /\ pc' = c /\ UNCHANGED other
    ELSE other' = [live |-> c # "none", s |-> s, pc |-> c] /\ UNCHANGED <<store, pc>>

TwoFrame == UNCHANGED <<everT, everC, allocT, allocC, out>>

\* Store::new of process p; on a path without a file it starts a persist
TwoNew(p) ==
    /\ Pc(p) = "none"
    /\ lastOp' = Op("new", p, 0, file.exists)
    /\ TwoFrame
    /\ \/ /\ file.exists /\ Parses(file)
          /\ Step(p, load(file), "run")
          /\ UNCHANGED file
       \/ /\ NewPanics(file)
          /\ Step(p, St(p), "panic")
          /\ UNCHANGED file
       \/ /\ ~file.exists
          /\ Step(p, EmptyStore, "write")
          /\ file' = Truncated

\* add_transaction up to File::create of its persist
TwoAddTransaction(p) ==
    /\ Pc(p) = "run"
    /\ St(p).max_transaction_id < MaxTransactionId
    /\ Step(p, add_transaction(St(p), "d", Num(1), NoCategory, 1), "write")
    /\ file' = Truncated
    /\ lastOp' = Op("add_transaction", p, St(p).max_transaction_id + 1, FALSE)
    /\ TwoFrame

\* delete_transaction up to File::create of its persist; no persist when
\* the id is not found
TwoDeleteTransaction(p) ==
    \E id \in TransactionIds :
        LET found == position(St(p).transactions, id) # 0 IN
        /\ Pc(p) = "run"
        /\ Step(p, delete_transaction(St(p), id), IF found THEN "write" ELSE "run")
        /\ file' = IF found THEN Truncated ELSE file
        /\ lastOp' = Op("delete_transaction", p, id, found)
        /\ TwoFrame

\* write_all of the persist process p is in; lastOp.hit: the file was
\* still as this process had truncated it
TwoWrite(p) ==
    /\ Pc(p) = "write"
    /\ file' = write_all(file, persist(St(p)))
    /\ Step(p, St(p), "run")
    /\ lastOp' = Op("persist", p, 0, file = Truncated)
    /\ TwoFrame

\* the process ends, by returning from main or after its panic
TwoExit(p) ==
    /\ Pc(p) \in {"run", "panic"}
    /\ Step(p, EmptyStore, "none")
    /\ lastOp' = Op("exit", p, 0, FALSE)
    /\ UNCHANGED file
    /\ TwoFrame

\* the process is killed between File::create and write_all
TwoCrash(p) ==
    /\ Pc(p) = "write"
    /\ Step(p, EmptyStore, "none")
    /\ lastOp' = Op("crash", p, 0, FALSE)
    /\ UNCHANGED file
    /\ TwoFrame

NextTwo ==
    \E p \in Processes :
        \/ TwoNew(p)
        \/ TwoAddTransaction(p)
        \/ TwoDeleteTransaction(p)
        \/ TwoWrite(p)
        \/ TwoExit(p)
        \/ TwoCrash(p)

SpecTwo == Init /\ [][NextTwo]_vars

\* ---------------------------------------------------------------- queries
\* The queries are functions of a transaction list; the specification draws
\* the list and applies each query to it.
QueryAmounts == {Num(1), Num(-2), F64Max(1), F64Max(-1)}
QueryTimes == {1, 2, 3}
QueryCategories == {NoCategory, SomeCategory(Category_new(1, "a")), SomeCategory(Category_new(1, "b"))}
QueryFields == [amount : QueryAmounts, datetime : QueryTimes, category : QueryCategories]

InitQuery ==
    /\ \E n \in 0..MaxLen : \E f \in [1..n -> QueryFields] :
          store = [EmptyStore EXCEPT
                      !.transactions = [i \in 1..n |->
                          Transaction_new(i, f[i].amount, "d", f[i].category, f[i].datetime)],
                      !.max_transaction_id = n]
    /\ file = persist(store)
    /\ pc = "run"
    /\ lastOp = Op("init", 0, 0, FALSE)
    /\ everT = store.max_transaction_id
    /\ everC = 0
    /\ allocT = 1..store.max_transaction_id
    /\ allocC = {}
    /\ out = NoOut
    /\ other = NoOther

\* A query takes &self and changes nothing.
QueryFrame ==
    UNCHANGED <<store, file, pc, lastOp, everT, everC, allocT, allocC, other>>

\* each behaviour applies one query to the list it drew
Fresh == out = NoOut

ListTransactions ==
    \E c \in QueryCategories :
        /\ Fresh
        /\ out' = [kind |-> "list", category |-> c, ret |-> list_transactions(store, c)]
        /\ QueryFrame

QueryMonths == {NoMonth, SomeMonth("overall"), SomeMonth("2024-01"), SomeMonth("2024-02"),
                SomeMonth("2024-1")}
QueryLimits == {Num(5), Num(1)}
\* the instants of Utc::now() in check_limit
QueryNows == DOMAIN Calendar

Summary ==
    \E m \in QueryMonths, c \in QueryCategories :
        /\ Fresh
        /\ out' = [kind |-> "summary", month |-> m, category |-> c,
                   ret |-> summary(store.transactions, m, c)]
        /\ QueryFrame

CheckLimit ==
    \E l \in QueryLimits, now \in QueryNows :
        /\ Fresh
        /\ out' = [kind |-> "check_limit", limit |-> l, now |-> now,
                   ret |-> check_limit(store.transactions, l, now)]
        /\ QueryFrame

NextQuery ==
    \/ ListTransactions
    \/ Summary
    \/ CheckLimit

SpecQuery == InitQuery /\ [][NextQuery]_vars

\* ---------------------------------------------------------------- properties
\* the id the next add would assign (store.rs: self.max_transaction_id + 1)
NextTransactionId(s) == s.max_transaction_id + 1
NextCategoryId(s) == s.max_category_id + 1

Ids(seq) == {seq[i].id : i \in DOMAIN seq}

\* C1: within one Store instance the id returned by an add is 1 + the largest
\* id ever present in that namespace in this instance (1 when none ever was).
C1_AddReturnsEverMaxPlusOne ==
    [][/\ lastOp'.op = "add_transaction" => lastOp'.ret = everT + 1
       /\ lastOp'.op = "add_category" => lastOp'.ret = everC + 1]_vars

\* C1 witness: an add after the record with the largest id was deleted.
C1_Witness ==
    /\ lastOp.op = "add_transaction"
    /\ lastOp.ret = MaxTransactionId
    /\ Ids(store.transactions) = {lastOp.ret}

\* C2 as stated: the next id is always 1 + the largest id currently stored.
C2_NextIdIsCurrentMaxPlusOne ==
    pc = "run" =>
        /\ NextTransactionId(store) = 1 + MaxIdOf(store.transactions)
        /\ NextCategoryId(store) = 1 + MaxIdOf(store.categories)

\* C2 amended: the next id is at least 1 + the largest id currently stored,
\* and equal to it right after Store::new.
C2_NextIdAtLeastCurrentMaxPlusOne ==
    pc = "run" =>
        /\ NextTransactionId(store) >= 1 + MaxIdOf(store.transactions)
        /\ NextCategoryId(store) >= 1 + MaxIdOf(store.categories)
        /\ lastOp.op = "new" =>
              /\ NextTransactionId(store) = 1 + MaxIdOf(store.transactions)
              /\ NextCategoryId(store) = 1 + MaxIdOf(store.categories)

\* C2 witness: a reload of a file with a gap below its largest id.
C2_Witness ==
    /\ pc = "run"
    /\ lastOp.op = "new"
    /\ Ids(store.transactions) = {MaxTransactionId}
    /\ Ids(store.categories) = {MaxCategoryId}

\* C3: across adds, deletes and reloads no id is allocated twice.
C3_NoIdAllocatedTwice ==
    [][/\ lastOp'.op = "add_transaction" => lastOp'.ret \notin allocT
       /\ lastOp'.op = "add_category" => lastOp'.ret \notin allocC]_vars

\* C4: stored transaction ids are pairwise distinct, and so are stored
\* category ids.
C4_IdsPairwiseDistinct ==
    /\ \A i, j \in DOMAIN store.transactions :
          store.transactions[i].id = store.transactions[j].id => i = j
    /\ \A i, j \in DOMAIN store.categories :
          store.categories[i].id = store.categories[j].id => i = j

\* C4 witness: two transactions and two categories loaded by a reload; the
\* namespaces share ids.
C4_Witness ==
    /\ lastOp.op = "new"
    /\ Len(store.transactions) = 2
    /\ Len(store.categories) = 2
    /\ Ids(store.transactions) = Ids(store.categories)

C6_CategoryIsListed ==
    \A i \in DOMAIN store.transactions :
        \/ ~store.transactions[i].category.some
        \/ \E j \in DOMAIN store.categories :
              /\ store.categories[j].id = store.transactions[i].category.id
              /\ store.categories[j].name = store.transactions[i].category.name

\* C6 witness: a category was deleted while a transaction held it and
\* another transaction still holds a listed category.
C6_Witness ==
    /\ lastOp.op = "delete_category"
    /\ lastOp.hit
    /\ lastOp.ret = 1
    /\ \E i \in DOMAIN store.transactions : store.transactions[i].category.some

\* what the file holds and what a Store holds: transactions, categories, limit
Content(s) == <<s.transactions, s.categories, s.limit>>

\* C7: after every mutating operation the transactions, categories and
\* limit in the file are identical to those in memory.
C7_FileMatchesMemory ==
    pc = "run" =>
        /\ file.exists
        /\ Parses(file)
        /\ Content(load(file)) = Content(store)

\* C8: a load of the file a previous Store wrote yields the writer's
\* transactions, categories and limit, and the high-water marks are the
\* largest loaded ids.
C8_LoadReproducesWriter ==
    [][(pc = "run" /\ lastOp'.op = "new") =>
          /\ pc' = "run"
          /\ Content(store') = Content(store)
          /\ store'.max_transaction_id = MaxIdOf(store'.transactions)
          /\ store'.max_category_id = MaxIdOf(store'.categories)]_vars

C10_DeleteAbsentCategoryIsNoOp ==
    [][(lastOp'.op = "delete_category" /\ ~lastOp'.hit) =>
          /\ store'.categories = store.categories
          /\ store'.limit = store.limit
          /\ store'.transactions = store.transactions]_vars

\* the stored transactions list_transactions(category) has to return
Matching(category) ==
    {i \in DOMAIN store.transactions :
        \/ ~category.some
        \/ /\ store.transactions[i].category.some
           /\ store.transactions[i].category.id = category.id
           /\ store.transactions[i].category.name = category.name}

\* C11: list_transactions(Some(c)) returns exactly the stored transactions
\* whose category has the id and the name of c, list_transactions(None)
\* returns all of them, both in non-decreasing timestamp order.
C11_ListFiltersAndSorts ==
    out.kind = "list" =>
        /\ Len(out.ret) = Cardinality(Matching(out.category))
        /\ \A i \in Matching(out.category) :
              \E j \in DOMAIN out.ret : out.ret[j] = store.transactions[i]
        /\ \A j \in DOMAIN out.ret :
              \E i \in Matching(out.category) : out.ret[j] = store.transactions[i]
        /\ \A i, j \in DOMAIN out.ret :
              i < j => out.ret[i].datetime <= out.ret[j].datetime

\* C11 witness: a filtered listing that leaves out a transaction with the
\* same category id under another name and reorders the two it returns.
C11_Witness ==
    /\ out.kind = "list"
    /\ out.category.some
    /\ Len(store.transactions) = 3
    /\ \A i \in DOMAIN store.transactions : store.transactions[i].category.some
    /\ Len(out.ret) = 2
    /\ out.ret[1].id > out.ret[2].id

\* strictly positive, stated on the value
StrictlyPositive(a) ==
    \/ a.k = "num" /\ a.v >= 1
    \/ a.k \in {"max", "inf"} /\ a.v = 1

\* C12: after set_limit(a) the limit is Some(a) when a is strictly
\* positive and None otherwise, whatever it was before, and nothing else
\* in the store has changed.
C12_SetLimit ==
    [][lastOp'.op = "set_limit" =>
          /\ StrictlyPositive(lastOp'.arg) => store'.limit = lastOp'.arg
          /\ ~StrictlyPositive(lastOp'.arg) => store'.limit = NoLimit
          /\ store'.transactions = store.transactions
          /\ store'.categories = store.categories
          /\ store'.max_transaction_id = store.max_transaction_id
          /\ store'.max_category_id = store.max_category_id]_vars

\* C12 witness: set_limit(0) left no limit in a store that holds records.
C12_Witness ==
    /\ lastOp.op = "set_limit"
    /\ lastOp.arg = Num(0)
    /\ store.limit = NoLimit
    /\ Len(store.transactions) > 0
    /\ Len(store.categories) > 0

\* the amounts added one after the other, from the first transaction on
RECURSIVE Accumulate(_, _, _)
Accumulate(seq, i, acc) ==
    IF i > Len(seq) THEN acc ELSE Accumulate(seq, i + 1, F64Add(acc, seq[i].amount))

\* C13: summary(transactions, "overall", no category) has as total the sum
\* of the amounts of all the transactions, 0 for none, negative amounts
\* and transactions without a category included.
C13_OverallTotalIsSum ==
    (out.kind = "summary" /\ out.month = SomeMonth("overall") /\ ~out.category.some) =>
        /\ ~out.ret.panic
        /\ out.ret.total = Accumulate(store.transactions, 1, Num(0))
        /\ Len(store.transactions) = 0 => out.ret.total = Num(0)

\* C13 witness: an overall summary of a negative amount, an amount without
\* a category and one with a category, in different months.
C13_Witness ==
    /\ out.kind = "summary" /\ out.month = SomeMonth("overall") /\ ~out.category.some
    /\ out.ret.total = Num(-3)
    /\ \E i, j \in DOMAIN store.transactions :
          /\ store.transactions[i].category.some
          /\ ~store.transactions[j].category.some
          /\ format_ym(store.transactions[i].datetime) # format_ym(store.transactions[j].datetime)

\* the year and month a month argument names; <<0, 0>> for a string that
\* names none
YearMonth(m) ==
    CASE m = "2024-01" -> <<2024, 1>>
      [] m = "2024-02" -> <<2024, 2>>
      [] m = "2025-01" -> <<2025, 1>>
      [] OTHER -> <<0, 0>>

\* the transaction passes the filters (month string, optional category) as
\* the specification words them
RefPasses(t, m, category) ==
    /\ m = "overall"
       \/ <<Calendar[t.datetime].year, Calendar[t.datetime].month>> = YearMonth(m)
    /\ category.some =>
          /\ t.category.some
          /\ t.category.id = category.id
          /\ t.category.name = category.name

\* the transactions of the list that pass the filters of the last summary,
\* in list order
RefPassing == SelectSeq(store.transactions, LAMBDA t : RefPasses(t, out.month.s, out.category))

\* those of the UTC date of instant d
RefOfDay(d) == SelectSeq(RefPassing, LAMBDA t : Calendar[t.datetime] = Calendar[d])

\* by_day has a key exactly for the dates of the passing transactions, with
\* the sum of the amounts of that date as value
ByDayGroups ==
    /\ DOMAIN out.ret.by_day \subseteq {format_ymd(d) : d \in QueryTimes}
    /\ \A d \in QueryTimes :
          /\ format_ymd(d) \in DOMAIN out.ret.by_day <=> Len(RefOfDay(d)) > 0
          /\ Len(RefOfDay(d)) > 0 =>
                out.ret.by_day[format_ymd(d)] = Accumulate(RefOfDay(d), 1, Num(0))

\* the values of f added in the order keys
RECURSIVE SumInOrder(_, _)
SumInOrder(f, keys) ==
    IF Len(keys) = 0 THEN Num(0)
    ELSE F64Add(SumInOrder(f, SubSeq(keys, 1, Len(keys) - 1)), f[keys[Len(keys)]])

\* the orders in which the keys of f can be visited
Orders(f) ==
    {q \in [1..Cardinality(DOMAIN f) -> DOMAIN f] :
        \A i, j \in DOMAIN q : i # j => q[i] # q[j]}

\* C14 as stated: by_day has a key exactly for the dates of the passing
\* transactions, each value is the sum of that date's amounts, and the
\* values of by_day add up to total (in some order of the keys).
C14_ByDayAddsUpToTotal ==
    (out.kind = "summary" /\ ~out.ret.panic) =>
        /\ ByDayGroups
        /\ \E q \in Orders(out.ret.by_day) : SumInOrder(out.ret.by_day, q) = out.ret.total

\* every passing amount is a number that f64 adds without rounding
ExactAmounts == \A i \in DOMAIN RefPassing : RefPassing[i].amount.k = "num"

\* C14 amended: by_day has a key exactly for the dates of the passing
\* transactions and each value is the sum of that date's amounts; the
\* values add up to total, in every order of the keys, when the additions
\* are exact.
C14_ByDayGroupsAndAddsUpWhenExact ==
    (out.kind = "summary" /\ ~out.ret.panic) =>
        /\ ByDayGroups
        /\ ExactAmounts =>
              \A q \in Orders(out.ret.by_day) : SumInOrder(out.ret.by_day, q) = out.ret.total

\* C14 witness: a summary over three passing transactions on two dates, one
\* date holding two of them, with exact amounts.
C14_Witness ==
    /\ out.kind = "summary" /\ ~out.ret.panic
    /\ Len(RefPassing) = 3
    /\ ExactAmounts
    /\ Cardinality(DOMAIN out.ret.by_day) = 2
    /\ \E d \in QueryTimes : Len(RefOfDay(d)) = 2 /\ out.ret.by_day[format_ymd(d)] = Num(-1)

\* C15: summary aggregates exactly the transactions that pass both filters:
\* every transaction under "overall", otherwise those whose year-month is
\* the given string; with a category only those whose category has its id
\* and its name, without one all of them, uncategorised ones included.
C15_AggregatesExactlyPassing ==
    (out.kind = "summary" /\ ~out.ret.panic) =>
        /\ \A i \in DOMAIN store.transactions :
              (/\ PassesMonth(store.transactions[i], out.month.s)
               /\ PassesCategory(store.transactions[i], out.category))
              <=> RefPasses(store.transactions[i], out.month.s, out.category)
        /\ out.ret.total = Accumulate(RefPassing, 1, Num(0))
        /\ DOMAIN out.ret.by_day = {format_ymd(RefPassing[i].datetime) : i \in DOMAIN RefPassing}

\* C15 witness: a summary of 2024-01 for category (1, "a") that counts one
\* transaction and leaves out one of the same category in another month
\* and one of the same month whose category has the same id and another name.
C15_Witness ==
    /\ out.kind = "summary"
    /\ out.month = SomeMonth("2024-01")
    /\ out.category = SomeCategory(Category_new(1, "a"))
    /\ Len(RefPassing) = 1
    /\ out.ret.total = RefPassing[1].amount
    /\ \E i, j \in DOMAIN store.transactions :
          /\ store.transactions[i].category = out.category
          /\ format_ym(store.transactions[i].datetime) = "2024-02"
          /\ store.transactions[j].category = SomeCategory(Category_new(1, "b"))
          /\ format_ym(store.transactions[j].datetime) = "2024-01"

\* the month argument is the year-month of no transaction of the list
MatchesNoMonth(m) ==
    /\ m # "overall"
    /\ \A i \in DOMAIN store.transactions :
          <<Calendar[store.transactions[i].datetime].year,
            Calendar[store.transactions[i].datetime].month>> # YearMonth(m)

\* C16: a month argument that is neither "overall" nor the year-month of a
\* transaction, a malformed string included, makes summary return total 0
\* and an empty by_day, without a panic.
C16_UnmatchedMonthIsEmpty ==
    (out.kind = "summary" /\ out.month.some /\ MatchesNoMonth(out.month.s)) =>
        /\ ~out.ret.panic
        /\ out.ret.total = Num(0)
        /\ DOMAIN out.ret.by_day = {}

\* C16 witness: the malformed month "2024-1" over a list of three
\* transactions of January 2024.
C16_Witness ==
    /\ out.kind = "summary"
    /\ out.month = SomeMonth("2024-1")
    /\ ~out.category.some
    /\ Len(store.transactions) = 3
    /\ \A i \in DOMAIN store.transactions : Calendar[store.transactions[i].datetime].month = 1
    /\ out.ret.total = Num(0)

\* the transactions of the calendar month of instant now, in list order
RefOfMonth(now) ==
    SelectSeq(store.transactions,
        LAMBDA t : /\ Calendar[t.datetime].year = Calendar[now].year
                   /\ Calendar[t.datetime].month = Calendar[now].month)

\* x > y on f64
Tier(x) == IF x.k = "num" THEN 0 ELSE IF x.k = "max" THEN x.v ELSE 2 * x.v
Gt(x, y) ==
    /\ x.k # "nan" /\ y.k # "nan"
    /\ \/ Tier(x) > Tier(y)
       \/ Tier(x) = Tier(y) /\ x.k = "num" /\ x.v > y.v

\* C17: check_limit returns the limit minus the sum of the amounts of the
\* transactions of the calendar month (UTC) of the call, whatever their
\* category, and the result is negative exactly when that sum exceeds the
\* limit; a sum of 3 gives 2 under limit 5 and -2 under limit 1.
C17_CheckLimit ==
    out.kind = "check_limit" =>
        LET sum == Accumulate(RefOfMonth(out.now), 1, Num(0)) IN
        /\ out.ret = F64Sub(out.limit, sum)
        /\ LtZero(out.ret) <=> Gt(sum, out.limit)
        /\ (sum = Num(3) /\ out.limit = Num(5)) => out.ret = Num(2)
        /\ (sum = Num(3) /\ out.limit = Num(1)) => out.ret = Num(-2)

\* C17 witness: limit 1 is exceeded by two transactions of this month, one
\* with and one without a category, while one of another month is ignored.
C17_Witness ==
    /\ out.kind = "check_limit"
    /\ out.limit = Num(1)
    /\ out.ret = Num(-1)
    /\ Len(store.transactions) = 3
    /\ Len(RefOfMonth(out.now)) = 2
    /\ \E i, j \in DOMAIN RefOfMonth(out.now) :
          RefOfMonth(out.now)[i].category.some /\ ~RefOfMonth(out.now)[j].category.some

\* transaction t is in the next store with its id, amount, description and
\* timestamp, and with its category or, after delete_category of that
\* category's id, with none
KeptInNext(t) ==
    \E j \in DOMAIN store'.transactions :
        LET u == store'.transactions[j] IN
        /\ u.id = t.id
        /\ u.amount = t.amount
        /\ u.description = t.description
        /\ u.datetime = t.datetime
        /\ \/ u.category = t.category
           \/ /\ u.category = NoCategory
              /\ lastOp'.op = "delete_category"
              /\ t.category.some
              /\ t.category.id = lastOp'.arg

\* transaction t is gone from the next store, by delete_transaction(t.id)
DeletedInNext(t) ==
    /\ lastOp'.op = "delete_transaction"
    /\ lastOp'.arg = t.id
    /\ \A j \in DOMAIN store'.transactions : store'.transactions[j].id # t.id

\* C18: no Store operation changes the id, amount, description or
\* timestamp of a stored transaction, only delete_transaction of its id
\* removes it, and its category changes only by delete_category of that
\* category's id clearing it; add_category, set_limit, other adds and
\* deletes and reloads leave it as it was.
C18_TransactionsImmutable ==
    [][\A i \in DOMAIN store.transactions :
          KeptInNext(store.transactions[i]) \/ DeletedInNext(store.transactions[i])]_vars

\* C18 witness: a category was added under the id a stored transaction
\* carries in its snapshot, with another name, and the snapshot stayed.
C18_Witness ==
    /\ lastOp.op = "add_category"
    /\ \E i \in DOMAIN store.transactions :
          /\ store.transactions[i].category.some
          /\ store.transactions[i].category.id = lastOp.ret
          /\ get_category(store, lastOp.ret).some
          /\ get_category(store, lastOp.ret).name # store.transactions[i].category.name

\* C19: Store::new on a path without a file returns a store without
\* transactions, categories and limit and with both high-water marks 0,
\* having written that empty state to the path; the first add_transaction
\* and the first add_category then return id 1.
C19_NewOnAbsentPath ==
    [][/\ (~file.exists /\ lastOp'.op = "new") =>
             /\ pc' = "run"
             /\ store'.transactions = <<>>
             /\ store'.categories = <<>>
             /\ store'.limit = NoLimit
             /\ store'.max_transaction_id = 0
             /\ store'.max_category_id = 0
             /\ file'.exists
             /\ file'.transactions = <<>>
             /\ file'.categories = <<>>
             /\ file'.limit = JNull
       /\ (allocT = {} /\ lastOp'.op = "add_transaction") => lastOp'.ret = 1
       /\ (allocC = {} /\ lastOp'.op = "add_category") => lastOp'.ret = 1]_vars

\* C19 witness: Store::new has just created the file of an empty store.
C19_Witness ==
    /\ lastOp.op = "new"
    /\ ~lastOp.hit
    /\ pc = "run"
    /\ file.exists
    /\ file.transactions = <<>>
    /\ store.max_transaction_id = 0
    /\ allocT = {}
    /\ allocC = {}

\* C20: with two Store instances on the same path whose mutating operations
\* interleave, after each persist the file holds exactly the complete
\* state of the instance that persisted last.
C20_LastWriterWins ==
    lastOp.op = "persist" =>
        /\ file.exists
        /\ Parses(file)
        /\ Content(load(file)) = Content(St(lastOp.arg))

\* the step is an Add, List or Summary command given a category id that is
\* not in the store the command loads
FailedLookup ==
    /\ lastOp'.op \in {"get_category", "add_transaction", "list", "summary"}
    /\ lastOp'.arg # 0
    /\ position(NewStore(file).categories, lastOp'.arg) = 0

\* the command dies without appending a transaction or consuming an id
DiesWithoutRecord ==
    /\ pc' = "panic"
    /\ file'.exists
    /\ file'.transactions = file.transactions
    /\ file'.categories = file.categories
    /\ file'.limit = file.limit
    /\ allocT' = allocT
    /\ MaxIdOf(file'.transactions) = MaxIdOf(file.transactions)

\* C21 as stated: an Add (List, Summary) command given a category id that
\* is not in the store fails without appending a transaction or consuming
\* an id, and the data file is left as it was before the command.
C21_FailedLookupLeavesFile ==
    [][FailedLookup => (DiesWithoutRecord /\ file' = file)]_vars

\* C21 amended: such a command fails without appending a transaction or
\* consuming an id; a data file that exists is left as it was, and a data
\* file that does not exist is created holding the empty store.
C21_FailedLookupKeepsRecords ==
    [][FailedLookup =>
          /\ DiesWithoutRecord
          /\ file.exists => file' = file
          /\ ~file.exists => file' = persist(EmptyStore)]_vars

\* C21 witness: an Add command died on a category id that is not in a
\* store holding a transaction and another category.
C21_Witness ==
    /\ lastOp.op = "get_category"
    /\ pc = "panic"
    /\ position(store.categories, lastOp.arg) = 0
    /\ Len(store.categories) > 0
    /\ Len(store.transactions) > 0
    /\ file = persist(store)

C23_PersistIsAtomic ==
    /\ file.exists => Parses(file)
    /\ \A p \in Processes : Pc(p) # "panic"

\* the timestamps of the stored transactions never decrease along the list
ClockNeverWentBack ==
    \A i, j \in DOMAIN store.transactions :
        i < j => store.transactions[i].datetime <= store.transactions[j].datetime

====
